---- MODULE Spec2Model ----
(***************************************************************************)
(* The part decomposition pipeline of services/csgService                  *)
(* (performGridSlice, performManualSlice, applyHollowing, applyConnectors, *)
(* applyLabel) as a state machine.                                         *)
(*                                                                         *)
(* Lengths are fixed-point numbers: one unit is 0.05 world units, so the   *)
(* degenerate-cell threshold 0.1 is 2 units.  The boolean mesh evaluator,  *)
(* the Brush constructor and the surface probe are external: each of their *)
(* outcomes is a nondeterministic choice.  The geometry of a part is        *)
(* abstracted to the record of the features that were merged into it.      *)
(*                                                                         *)
(* JavaScript runs every block between two `await wait()` to completion;   *)
(* pc names the position of the run inside such a block.                   *)
(*                                                                         *)
(* Spec is the pipeline on small inputs (SpecFair: under the scheduling of *)
(* the browser), SpecPartition its first block on wide inputs, SpecFeature *)
(* the numbers computed by the hollowing and connector stages,             *)
(* SpecNormalize the normalizer on small meshes, SpecSidebar the           *)
(* configuration edits of the Sidebar followed by the start of a run,      *)
(* SpecApp the handlers of App with overlapping slicing runs.              *)
(***************************************************************************)
EXTENDS Integers, Sequences, FiniteSets, TLC

Axes == {"x", "y", "z"}

\* ------------------------------------------------------------ constants
\* `w < 0.1` in units of 0.05
MinDim == 2
\* `total > 500`
MaxParts == 500

\* `Math.max(5, connectors.spacing)` in units of 0.05
MinSpacing == 100

\* `Math.max(1, ...)` of the envelope inputs, in units of 0.05
MinPrinter == 20
\* `parseFloat(e.target.value) || 1` of the envelope inputs, in units of 0.05
DefaultPrinter == 20

\* `mergeVertices(freshGeo, 1e-4)` in units of 0.5e-4
WeldTolerance == 2

\* --------------------------------------------------------------- bounds
\* extents, envelope sizes and split offsets of the pipeline runs: 0 .. MaxSize
MaxSize == 5
\* a pipeline run has at most MaxCells cells (or is over the safety limit)
MaxCells == 3
\* a pipeline run with hollowing enabled has at most MaxHollowCells cells
MaxHollowCells == 2
\* a pipeline run without hollowing, connectors and labels has at most
\* MaxPlainCells cells
MaxPlainCells == 4
\* external failures (evaluator throws, Brush construction fails) per run
MaxFaults == 1
\* the one oversized pipeline input: every extent OverSize, every envelope 1
OverSize == 8
\* extents and offsets of the partition-only specification: 0 .. PartMaxSize
PartMaxSize == 10
\* envelope sizes of the partition-only specification: 1 .. PartMaxEnv
PartMaxEnv == 3
\* wall thicknesses of the feature-number runs: 0 .. MaxWall and some larger
MaxWall == 6
\* extents of the feature-number runs: 1 .. MaxExtent and some larger
MaxExtent == 12
\* vertex coordinates of the normalizer runs: 0 .. MaxCoord
MaxCoord == 3
\* applications of the normalizer to one mesh
MaxPasses == 2
\* clicks on Generate Slices
MaxRuns == 2
\* `await wait()` of one run
MaxBlocks == 1
\* evaluator calls between two `await wait()`
MaxCalls == 1
\* files loaded and rescalings applied
MaxModels == 1

VARIABLES
    config,      \* SlicingConfig
    connectors,  \* ConnectorConfig (enabled)
    hollow,      \* HollowConfig (enabled, drainHoleEnabled)
    labels,      \* LabelConfig (enabled)
    size,        \* bounds.getSize(): extent per axis
    geometry,    \* the source mesh handed to the run
    pc,          \* position of the run
    steps,       \* stepsX/Y/Z (grid), splitsX/Y/Z.length (manual)
    splits,      \* splitsX/Y/Z (manual)
    total,       \* stepsX * stepsY * stepsZ
    current,     \* progress counter
    idx,         \* loop indices ix, iy, iz
    offset,      \* offsetX, offsetY, offsetZ (manual)
    base,        \* baseBrush: which subtractions it carries
    geo,         \* finalGeo of the cell in progress
    face,        \* position in the six guarded addFeatures calls
    parts,       \* the parts array
    events,      \* progress notifications, evaluator calls, addFeatures calls
    brushes,     \* number of Brush objects built
    faults,      \* external failures so far
    error,       \* the Error thrown, if any
    result,      \* the resolved value of the promise
    calc,        \* the numbers a feature stage last computed
    state,       \* AppState (isLoaded, parts, isProcessing)
    model,       \* the generation of meshRef.current.geometry and modelBounds
    runs,        \* the calls of handleSlicing: position, arguments, blocks left
    task,        \* the run whose block the event loop executes, 0 when idle
    io           \* pending FileReader load, pending zip.generateAsync

vars == <<config, connectors, hollow, labels, size, geometry, pc, steps, splits,
          total, current, idx, offset, base, geo, face, parts, events, brushes,
          faults, error, result, calc, state, model, runs, task, io>>

\* the state of App and of the slicing runs it started
appVars == <<state, model, runs, task, io>>

\* the arguments of a run, the numbers of the feature stages and the state of
\* App, which no step of the orchestrator changes
cfgVars == <<config, connectors, hollow, labels, size, geometry, calc, appVars>>

\* ----------------------------------------------------------- arithmetic
Max(a, b) == IF a >= b THEN a ELSE b

\* Math.ceil(n / d) for d > 0
Ceil(n, d) == -((-n) \div d)

\* ------------------------------------------------------- configuration
PrinterOf(c, a) ==
    CASE a = "x" -> c.printerX [] a = "y" -> c.printerY [] OTHER -> c.printerZ

ManualOf(c, a) ==
    CASE a = "x" -> c.manualX [] a = "y" -> c.manualY [] OTHER -> c.manualZ

ShowOf(c, a) ==
    CASE a = "x" -> c.showX [] a = "y" -> c.showY [] OTHER -> c.showZ

\* ---------------------------------------------------------- partitioner
\* mutant: Math.floor in place of Math.ceil
GridStepsFloor(sz, env) == Max(1, sz \div env)

\* Math.max(1, Math.ceil(size / printer))
GridSteps(sz, env) == Max(1, Ceil(sz, env))

\* mutant: the last cell is as large as the others
GridExtentNoRemainder(sz, env, n, i) == env

\* w, h, d of a grid cell: the last cell of an axis takes the remainder
GridExtent(sz, env, n, i) == IF i = n - 1 THEN sz - i * env ELSE env

\* mutant: the second split is the whole extent
ManualSplitsNoRemainder(show, off, sz) == IF show THEN <<off, sz>> ELSE <<sz>>

\* splitsX, splitsY, splitsZ
ManualSplits(show, off, sz) == IF show THEN <<off, sz - off>> ELSE <<sz>>

\* mutant: the limit is off by one
LimitExceededAt(t) == t >= MaxParts

\* total > 500
LimitExceeded(t) == t > MaxParts

\* w < 0.1 || h < 0.1 || d < 0.1
Degenerate(b) == b.x < MinDim \/ b.y < MinDim \/ b.z < MinDim

\* ------------------------------------------------------------ the loops
Cell(i) == <<i.x, i.y, i.z>>

NoCell == <<-1, -1, -1>>

Zero == [a \in Axes |-> 0]

\* the extents w, h, d of the cell at the loop indices i
CellBox(i) ==
    IF config.mode = "grid"
    THEN [a \in Axes |-> GridExtent(size[a], PrinterOf(config, a), steps[a], i[a])]
    ELSE [a \in Axes |-> splits[a][i[a] + 1]]

\* the offset of the cell from bounds.min
CellPos(i) ==
    IF config.mode = "grid"
    THEN [a \in Axes |-> i[a] * PrinterOf(config, a)]
    ELSE offset

LastOf(a) == idx[a] + 1 >= steps[a]

\* mutant: the loops end with the last cell of the innermost loop
LoopDoneInner == LastOf("z")

\* all three loops are in their last iteration
LoopDone == LastOf("x") /\ LastOf("y") /\ LastOf("z")

\* iz++ ; on overflow iy++ ; on overflow ix++
NextIdx ==
    IF ~LastOf("z") THEN [idx EXCEPT !.z = @ + 1]
    ELSE IF ~LastOf("y") THEN [idx EXCEPT !.y = @ + 1, !.z = 0]
    ELSE [idx EXCEPT !.x = @ + 1, !.y = 0, !.z = 0]

\* mutant: a skipped cell leaves offsetZ where it was
NextOffsetSkipped ==
    LET b == CellBox(idx) IN
    IF config.mode = "grid" THEN offset
    ELSE IF ~LastOf("z")
         THEN (IF Degenerate(b) THEN offset ELSE [offset EXCEPT !.z = @ + b.z])
    ELSE IF ~LastOf("y") THEN [offset EXCEPT !.y = @ + b.y, !.z = 0]
    ELSE [offset EXCEPT !.x = @ + b.x, !.y = 0, !.z = 0]

\* offsetZ += d ; after the iz loop offsetY += h ; after the iy loop offsetX += w
NextOffset ==
    LET b == CellBox(idx) IN
    IF config.mode = "grid" THEN offset
    ELSE IF ~LastOf("z") THEN [offset EXCEPT !.z = @ + b.z]
    ELSE IF ~LastOf("y") THEN [offset EXCEPT !.y = @ + b.y, !.z = 0]
    ELSE [offset EXCEPT !.x = @ + b.x, !.y = 0, !.z = 0]

\* -------------------------------------------------------------- events
\* onProgress(msg)
Progress(what, n) ==
    [t |-> "progress", what |-> what, n |-> n, cell |-> NoCell, axis |-> "-",
     side |-> "-", res |-> "-", box |-> Zero, pos |-> Zero]

\* evaluator.evaluate(a, b, op): what names the operation's purpose
Eval(what, c, axis, side, res, box, pos) ==
    [t |-> "eval", what |-> what, n |-> 0, cell |-> c, axis |-> axis,
     side |-> side, res |-> res, box |-> box, pos |-> pos]

\* addFeatures(faceAxis, isPeg), with n = geometries.length after the probes
FaceCall(what, c, axis, side, n) ==
    [t |-> "face", what |-> what, n |-> n, cell |-> c, axis |-> axis,
     side |-> side, res |-> "-", box |-> Zero, pos |-> Zero]

\* a step of the run on cell c: "connEnd" (applyConnectors ran through its six
\* guarded calls), "push" (parts.push)
Mark(t, c) ==
    [t |-> t, what |-> "-", n |-> 0, cell |-> c, axis |-> "-",
     side |-> "-", res |-> "-", box |-> Zero, pos |-> Zero]

\* ------------------------------------------------------------ geometry
NoGeo == [cell |-> NoCell, pegs |-> {}, sockets |-> {}, label |-> FALSE, stages |-> <<>>]

\* res.geometry of the intersection of the base solid with the cell's box
Extracted(c) ==
    [cell |-> c, pegs |-> {}, sockets |-> {}, label |-> FALSE, stages |-> <<"extract">>]

NoResult == [returned |-> FALSE, parts |-> <<>>]

\* `${baseName}_P${ix}-${iy}-${iz}.stl` / `${baseName}_M${ix}-${iy}-${iz}.stl`
PartName(c) == <<IF config.mode = "grid" THEN "P" ELSE "M", c[1], c[2], c[3]>>

\* ---------------------------------------------------------- normalizer
\* A mesh: whether it has a position attribute, the entries of the attribute
\* (one coordinate per vertex, in units of half the welding tolerance), its
\* index buffer and the layout of the buffer ("none", "u16", "u32"), and
\* whether mergeVertices accepts its positions or throws on them.
\* new THREE.BufferGeometry(): no attribute, no index
EmptyGeometry ==
    [position |-> FALSE, points |-> <<>>, index |-> <<>>, layout |-> "none",
     welds |-> TRUE]

\* a mesh whose position attribute has no entries
ZeroCount ==
    [position |-> TRUE, points |-> <<>>, index |-> <<>>, layout |-> "none",
     welds |-> TRUE]

\* two non-indexed triangles that share an edge
Soup ==
    [position |-> TRUE, points |-> <<0, 2, 4, 4, 2, 6>>, index |-> <<>>,
     layout |-> "none", welds |-> TRUE]

\* geo.attributes.position.count
Count(g) == Len(g.points)

\* the number of triangles a mesh draws
Triangles(g) == (IF g.layout = "none" THEN Len(g.points) ELSE Len(g.index)) \div 3

\* mutant: the index of the input is ignored
toNonIndexedRaw(g) == g.points

\* geo.toNonIndexed(): one vertex per entry of the index; a mesh without index
\* is taken as it is
toNonIndexed(g) ==
    IF g.layout = "none" THEN g.points
    ELSE [i \in 1 .. Len(g.index) |-> g.points[g.index[i] + 1]]

\* the cell of the welding grid a coordinate falls into
Hash(p) == p \div WeldTolerance

RECURSIVE mergeVertices(_, _, _)
\* BufferGeometryUtils.mergeVertices(freshGeo, 1e-4): a vertex whose cell was
\* seen before is replaced by the first vertex of that cell, which is kept
\* where it was
mergeVertices(soup, points, index) ==
    IF soup = <<>> THEN [points |-> points, index |-> index]
    ELSE LET seen == {j \in 1 .. Len(points) : Hash(points[j]) = Hash(Head(soup))}
         IN IF seen # {}
            THEN mergeVertices(Tail(soup), points,
                               Append(index, (CHOOSE j \in seen : TRUE) - 1))
            ELSE mergeVertices(Tail(soup), Append(points, Head(soup)),
                               Append(index, Len(points)))

\* the fallback of the catch: indices[i] = i
ManualIndex(soup) == [points |-> soup, index |-> [i \in 1 .. Len(soup) |-> i - 1]]

\* the result for an input without vertices; else toNonIndexed, positions
\* only, mergeVertices or the manual index, a Uint32Array index
ensureValidForCSG(g) ==
    IF ~g.position \/ Count(g) = 0 THEN EmptyGeometry
    ELSE LET freshGeo == toNonIndexed(g)
             indexedGeo == IF g.welds THEN mergeVertices(freshGeo, <<>>, <<>>)
                           ELSE ManualIndex(freshGeo)
         IN [position |-> TRUE, points |-> indexedGeo.points,
             index |-> indexedGeo.index, layout |-> "u32", welds |-> g.welds]

\* mutant: the emptiness test of createBrush is dropped
BrushInputUnchecked(g) == TRUE

\* createBrush up to `new Brush`: reading position.count of a geometry without
\* position attribute throws inside the try, which returns null as does
\* `count === 0 || !validGeo.index`
BrushInput(g) ==
    LET validGeo == ensureValidForCSG(g) IN
    validGeo.position /\ Count(validGeo) # 0 /\ validGeo.layout # "none"

\* the source meshes of the pipeline runs
Sources == {EmptyGeometry, ZeroCount, Soup}

\* nothing computed yet
NoCalc == [fn |-> "none"]

\* ------------------------------------------------------------ App state
\* the calls of handleSlicing, in the order of the clicks
RunIds == 1 .. MaxRuns

\* a click that has not happened yet
NoRun ==
    [st |-> "none", model |-> 0, left |-> 0, first |-> TRUE, calls |-> 0,
     before |-> <<>>, value |-> <<>>]

\* A part list is abstracted to at most one part, which names the run that
\* made it and the generation of the geometry it was cut from.  demoParts are
\* made by no run, from the demonstration box.
DemoParts == <<[run |-> 0, model |-> 0]>>

\* App after its first render and the effect that builds the demonstration
AppInit ==
    /\ state = [isLoaded |-> TRUE, parts |-> DemoParts, isProcessing |-> FALSE]
    /\ model = 0
    /\ runs = [r \in RunIds |-> NoRun]
    /\ task = 0
    /\ io = [reader |-> FALSE, zip |-> FALSE]

\* ------------------------------------------------------------- Init
Flags ==
    /\ connectors \in [enabled : BOOLEAN]
    /\ labels \in [enabled : BOOLEAN]
    /\ hollow \in [enabled : BOOLEAN, drainHoleEnabled : BOOLEAN]
    /\ hollow.enabled \/ hollow.drainHoleEnabled

GridConfigs(envs) ==
    [mode : {"grid"}, printerX : envs, printerY : envs, printerZ : envs,
     manualX : {0}, manualY : {0}, manualZ : {0},
     showX : {FALSE}, showY : {FALSE}, showZ : {FALSE}]

ManualConfigs(offs) ==
    {c \in [mode : {"manual"}, printerX : {1}, printerY : {1}, printerZ : {1},
            manualX : offs, manualY : offs, manualZ : offs,
            showX : BOOLEAN, showY : BOOLEAN, showZ : BOOLEAN] :
        \A a \in Axes : ~ShowOf(c, a) => ManualOf(c, a) = 0}

GridTotal(c, sz) ==
    GridSteps(sz.x, c.printerX) * GridSteps(sz.y, c.printerY) * GridSteps(sz.z, c.printerZ)

ManualTotal(c) ==
    Len(ManualSplits(c.showX, 0, 0)) * Len(ManualSplits(c.showY, 0, 0))
        * Len(ManualSplits(c.showZ, 0, 0))

RunInit ==
    /\ pc = "init"
    /\ steps = Zero
    /\ splits = [a \in Axes |-> <<>>]
    /\ total = 0
    /\ current = 0
    /\ idx = Zero
    /\ offset = Zero
    /\ base = [built |-> FALSE, shell |-> FALSE, drain |-> FALSE]
    /\ geo = NoGeo
    /\ face = 0
    /\ parts = <<>>
    /\ events = <<>>
    /\ brushes = 0
    /\ faults = 0
    /\ error = "none"
    /\ result = NoResult
    /\ AppInit

\* envelope sizes of the pipeline runs: at the degenerate threshold, above it,
\* and as large as the largest box
Envelopes == {MinDim, MinDim + 1, MaxSize}

\* The pipeline runs: a cubic bounding box, an envelope and split offsets that
\* differ per axis, every combination of the feature switches.
Cube(s) == [a \in Axes |-> s]

CellBound ==
    IF hollow.enabled THEN MaxHollowCells
    ELSE IF connectors.enabled \/ labels.enabled THEN MaxCells
    ELSE MaxPlainCells

Init ==
    /\ Flags
    /\ \/ /\ config \in GridConfigs(Envelopes)
          /\ size \in {Cube(s) : s \in 0 .. MaxSize}
          /\ GridTotal(config, size) <= CellBound
       \/ /\ config \in GridConfigs({1})
          /\ size = Cube(OverSize)
       \/ /\ config \in ManualConfigs(0 .. MaxSize)
          /\ size \in {Cube(s) : s \in 0 .. MaxSize}
          /\ ManualTotal(config) <= CellBound
    /\ geometry \in Sources
    /\ calc = NoCalc
    /\ RunInit

\* ------------------------------------------------- shared continuations
CanFault(n) == faults + n <= MaxFaults

\* The end of one loop iteration (also a `continue`): either the next
\* iteration starts and runs up to its `await wait()`, or the loops are over
\* and the parts are returned.
LoopNext(ev, ps) ==
    /\ parts' = ps
    /\ geo' = NoGeo
    /\ face' = 0
    /\ offset' = NextOffset
    /\ IF LoopDone
       THEN /\ pc' = "done"
            /\ result' = [returned |-> TRUE, parts |-> ps]
            /\ events' = ev
            /\ UNCHANGED <<idx, current>>
       ELSE /\ pc' = "cell"
            /\ idx' = NextIdx
            /\ current' = current + 1
            /\ events' = Append(ev, Progress("cell", current + 1))
            /\ UNCHANGED result

\* mutant: the first cell is not announced
LoopEnterSilent(ev) ==
    /\ pc' = "cell"
    /\ idx' = Zero
    /\ offset' = Zero
    /\ current' = 1
    /\ events' = ev

\* let current = 0; the first iteration up to its `await wait()`
LoopEnter(ev) ==
    /\ pc' = "cell"
    /\ idx' = Zero
    /\ offset' = Zero
    /\ current' = 1
    /\ events' = Append(ev, Progress("cell", 1))

\* createBrush(geometry.clone()) returns null
BaseFails ==
    IF BrushInput(geometry)
    THEN CanFault(1) /\ faults' = faults + 1
    ELSE UNCHANGED faults

\* --------------------------------------------------- performGridSlice
StepsOf == [a \in Axes |-> GridSteps(size[a], PrinterOf(config, a))]

TotalOf(n) == n.x * n.y * n.z

\* throw new Error("Part count exceeds safety limit (500). ...")
GridLimitExceeded ==
    /\ pc = "init" /\ config.mode = "grid"
    /\ LimitExceeded(TotalOf(StepsOf))
    /\ steps' = StepsOf
    /\ total' = TotalOf(StepsOf)
    /\ pc' = "fatal"
    /\ error' = "limit"
    /\ UNCHANGED <<cfgVars, splits, current, idx, offset, base, geo, face,
                   parts, events, brushes, faults, result>>

\* createBrush(geometry.clone()) returns null: the source has no vertices,
\* or `new Brush` fails
GridBaseFailed ==
    /\ pc = "init" /\ config.mode = "grid"
    /\ ~LimitExceeded(TotalOf(StepsOf))
    /\ BaseFails
    /\ steps' = StepsOf
    /\ total' = TotalOf(StepsOf)
    /\ pc' = "fatal"
    /\ error' = "init"
    /\ UNCHANGED <<cfgVars, splits, current, idx, offset, base, geo, face,
                   parts, events, brushes, result>>

\* The block up to the first `await wait()`.
GridStart ==
    /\ pc = "init" /\ config.mode = "grid"
    /\ ~LimitExceeded(TotalOf(StepsOf))
    /\ BrushInput(geometry)
    /\ steps' = StepsOf
    /\ total' = TotalOf(StepsOf)
    /\ brushes' = brushes + 1
    /\ base' = [built |-> TRUE, shell |-> FALSE, drain |-> FALSE]
    /\ IF hollow.enabled
       THEN /\ events' = <<Progress("hollow", 0)>>
            /\ pc' = "hollow"
            /\ UNCHANGED <<idx, offset, current>>
       ELSE LoopEnter(<<>>)
    /\ UNCHANGED <<cfgVars, splits, geo, face, parts, faults, error, result>>

\* ------------------------------------------------- performManualSlice
SplitsOf ==
    [a \in Axes |-> ManualSplits(ShowOf(config, a), ManualOf(config, a), size[a])]

\* throw new Error("Geometry initialization failed.")
ManualBaseFailed ==
    /\ pc = "init" /\ config.mode = "manual"
    /\ BaseFails
    /\ splits' = SplitsOf
    /\ steps' = [a \in Axes |-> Len(SplitsOf[a])]
    /\ pc' = "fatal"
    /\ error' = "init"
    /\ UNCHANGED <<cfgVars, total, current, idx, offset, base, geo, face,
                   parts, events, brushes, result>>

ManualStart ==
    /\ pc = "init" /\ config.mode = "manual"
    /\ BrushInput(geometry)
    /\ splits' = SplitsOf
    /\ steps' = [a \in Axes |-> Len(SplitsOf[a])]
    /\ brushes' = brushes + 1
    /\ base' = [built |-> TRUE, shell |-> FALSE, drain |-> FALSE]
    /\ IF hollow.enabled
       THEN /\ events' = <<Progress("hollow", 0)>>
            /\ pc' = "hollow"
            /\ UNCHANGED <<idx, offset, current>>
       ELSE LoopEnter(<<>>)
    /\ UNCHANGED <<cfgVars, total, geo, face, parts, faults, error, result>>

\* ------------------------------------------------------ applyHollowing
\* Outcomes of the shell subtraction: the inner Brush is not built; the
\* evaluator throws; the result yields no Brush; the shell is subtracted.
ShellOutcomes == {"nobrush", "throw", "null", "ok"}

\* Outcomes of the drain-hole subtraction; "off" when it is not attempted.
DrainOutcomes == {"nobrush", "throw", "null", "ok"}

Failed(o) == IF o \in {"nobrush", "throw", "null"} THEN 1 ELSE 0

\* mutant: the drain hole is punched whether enabled or not
DrainReachedAlways(sh) == sh \in {"null", "ok"}

\* whether the drain-hole block is entered
DrainReached(sh) == sh \in {"null", "ok"} /\ hollow.drainHoleEnabled

\* the Brush applyHollowing returns
HollowResult(b, sh, dr) ==
    LET resultBrush == IF sh = "ok" THEN [b EXCEPT !.shell = TRUE] ELSE b IN
    CASE sh = "nobrush" -> b
      [] sh = "throw" -> b
      [] dr = "throw" -> b
      [] dr = "ok" -> [resultBrush EXCEPT !.drain = TRUE]
      [] OTHER -> resultBrush

HollowEvents(sh, dr) ==
    (IF sh = "nobrush" THEN <<>>
     ELSE <<Eval("shell", NoCell, "-", "-", sh, Zero, Zero)>>)
    \o (IF dr \in {"off", "nobrush"} THEN <<>>
        ELSE <<Eval("drain", NoCell, "-", "-", dr, Zero, Zero)>>)

HollowBrushes(sh, dr) ==
    (IF sh = "nobrush" THEN 0 ELSE 1) + (IF sh = "ok" THEN 1 ELSE 0)
    + (IF dr \in {"off", "nobrush"} THEN 0 ELSE 1) + (IF dr = "ok" THEN 1 ELSE 0)

\* baseBrush = await applyHollowing(baseBrush, bounds, hollow), then the
\* first loop iteration up to its `await wait()`
ApplyHollowing ==
    /\ pc = "hollow"
    /\ \E sh \in ShellOutcomes, dr \in DrainOutcomes \cup {"off"} :
        /\ (dr = "off") <=> ~DrainReached(sh)
        /\ CanFault(Failed(sh) + Failed(dr))
        /\ faults' = faults + Failed(sh) + Failed(dr)
        /\ base' = HollowResult(base, sh, dr)
        /\ brushes' = brushes + HollowBrushes(sh, dr)
        /\ LoopEnter(events \o HollowEvents(sh, dr))
    /\ UNCHANGED <<cfgVars, steps, splits, total, geo, face, parts, error, result>>

\* -------------------------------------------------- the cell iteration
\* if (w < 0.1 || h < 0.1 || d < 0.1) continue
CellSkip ==
    /\ pc = "cell"
    /\ Degenerate(CellBox(idx))
    /\ LoopNext(events, parts)
    /\ UNCHANGED <<cfgVars, steps, splits, total, base, brushes, faults, error>>

\* createBrush(boxGeo) returns null
CellBrushFailed ==
    /\ pc = "cell"
    /\ ~Degenerate(CellBox(idx))
    /\ CanFault(1)
    /\ faults' = faults + 1
    /\ LoopNext(events, parts)
    /\ UNCHANGED <<cfgVars, steps, splits, total, base, brushes, error>>

Intersection(res) ==
    Eval("cell", Cell(idx), "-", "-", res, CellBox(idx), CellPos(idx))

\* mutant: the exception of the intersection is not caught
ExtractThrowsUncaught ==
    /\ pc = "cell"
    /\ ~Degenerate(CellBox(idx))
    /\ CanFault(1)
    /\ faults' = faults + 1
    /\ brushes' = brushes + 1
    /\ events' = Append(events, Intersection("throw"))
    /\ pc' = "fatal"
    /\ error' = "cell"
    /\ UNCHANGED <<cfgVars, steps, splits, total, current, idx, offset, base,
                   geo, face, parts, result>>

\* evaluator.evaluate(baseBrush, boxBrush, INTERSECTION) throws
ExtractThrows ==
    /\ pc = "cell"
    /\ ~Degenerate(CellBox(idx))
    /\ CanFault(1)
    /\ faults' = faults + 1
    /\ brushes' = brushes + 1
    /\ LoopNext(Append(events, Intersection("throw")), parts)
    /\ UNCHANGED <<cfgVars, steps, splits, total, base, error>>

\* the stage that follows the extraction of a non-empty part
AfterExtract ==
    IF config.mode = "grid" /\ connectors.enabled THEN "connectors"
    ELSE IF config.mode = "grid" /\ labels.enabled THEN "label"
    ELSE "push"

\* the stage that follows applyConnectors
AfterConnectors == IF labels.enabled THEN "label" ELSE "push"

\* mutant: a result without vertices is processed as a part
ExtractEmptyKept ==
    /\ pc = "cell"
    /\ ~Degenerate(CellBox(idx))
    /\ brushes' = brushes + 1
    /\ events' = Append(events, Intersection("empty"))
    /\ geo' = Extracted(Cell(idx))
    /\ pc' = AfterExtract
    /\ UNCHANGED <<cfgVars, steps, splits, total, current, idx, offset, base,
                   face, parts, faults, error, result>>

\* the intersection has no vertices
ExtractEmpty ==
    /\ pc = "cell"
    /\ ~Degenerate(CellBox(idx))
    /\ brushes' = brushes + 1
    /\ LoopNext(Append(events, Intersection("empty")), parts)
    /\ UNCHANGED <<cfgVars, steps, splits, total, base, faults, error>>

ExtractOk ==
    /\ pc = "cell"
    /\ ~Degenerate(CellBox(idx))
    /\ brushes' = brushes + 1
    /\ events' = Append(events, Intersection("ok"))
    /\ geo' = Extracted(Cell(idx))
    /\ pc' = AfterExtract
    /\ UNCHANGED <<cfgVars, steps, splits, total, current, idx, offset, base,
                   face, parts, faults, error, result>>

\* mutant: the part is put in front of the list
PushFront ==
    /\ pc = "push"
    /\ LoopNext(Append(events, Mark("push", geo.cell)),
                <<[geometry |-> geo, name |-> PartName(geo.cell),
                   index |-> geo.cell]>> \o parts)
    /\ UNCHANGED <<cfgVars, steps, splits, total, base, brushes, faults, error>>

\* parts.push({ geometry, name, index })
Push ==
    /\ pc = "push"
    /\ LoopNext(Append(events, Mark("push", geo.cell)),
                Append(parts, [geometry |-> geo, name |-> PartName(geo.cell),
                               index |-> geo.cell]))
    /\ UNCHANGED <<cfgVars, steps, splits, total, base, brushes, faults, error>>

\* ----------------------------------------------------- applyConnectors
\* the six guarded calls of addFeatures, in order
FaceOrder ==
    << [axis |-> "x", isPeg |-> TRUE], [axis |-> "x", isPeg |-> FALSE],
       [axis |-> "y", isPeg |-> TRUE], [axis |-> "y", isPeg |-> FALSE],
       [axis |-> "z", isPeg |-> TRUE], [axis |-> "z", isPeg |-> FALSE] >>

\* mutant: pegs are guarded by the sockets' condition
PegFaceSwapped(i, n) == i > 0

\* if (ix < stepsX - 1) await addFeatures('x', true)
PegFace(i, n) == i < n - 1

\* mutant: sockets on the first cell of the axis as well
SocketFaceAlways(i, n) == i >= 0

\* if (ix > 0) await addFeatures('x', false)
SocketFace(i, n) == i > 0

FaceGuard(f) ==
    IF f.isPeg THEN PegFace(idx[f.axis], steps[f.axis])
    ELSE SocketFace(idx[f.axis], steps[f.axis])

\* mutant: pegs on the min face, sockets on the max face
FaceSideSwapped(isPeg) == IF isPeg THEN "min" ELSE "max"

\* isPeg ? box.max : box.min, with the normal pointing out of that face
FaceSide(isPeg) == IF isPeg THEN "max" ELSE "min"

\* isPeg ? ADDITION : SUBTRACTION
FaceOp(isPeg) == IF isPeg THEN "peg" ELSE "socket"

\* the call for face f on which `accepted` candidates passed isValidPlacement
FaceEvent(f, accepted) ==
    FaceCall(FaceOp(f.isPeg), Cell(idx), f.axis, FaceSide(f.isPeg), accepted)

FaceEval(f, res) ==
    Eval(FaceOp(f.isPeg), Cell(idx), f.axis, FaceSide(f.isPeg), res, Zero, Zero)

\* resultBrush after the evaluator merged the face's cylinders
WithFeatures(g, f) ==
    IF f.isPeg THEN [g EXCEPT !.pegs = @ \cup {f.axis}]
    ELSE [g EXCEPT !.sockets = @ \cup {f.axis}]

\* the guarded calls after position f whose guard holds
CallsAfter(f) == {g \in f + 1 .. Len(FaceOrder) : FaceGuard(FaceOrder[g])}

\* the next call whose guard holds, or `return resultBrush.geometry`
FaceNext(ev, g, f) ==
    /\ IF CallsAfter(f) = {}
       THEN /\ events' = Append(ev, Mark("connEnd", Cell(idx)))
            /\ geo' = [g EXCEPT !.stages = Append(@, "connectors")]
            /\ pc' = AfterConnectors
            /\ face' = 0
       ELSE /\ events' = ev
            /\ geo' = g
            /\ pc' = "face"
            /\ face' = CHOOSE n \in CallsAfter(f) : \A m \in CallsAfter(f) : n <= m
    /\ UNCHANGED <<parts, idx, offset, current, result>>

\* createBrush(geo) returns null: return geo
ConnBrushFailed ==
    /\ pc = "connectors"
    /\ CanFault(1)
    /\ faults' = faults + 1
    /\ geo' = [geo EXCEPT !.stages = Append(@, "connectors")]
    /\ pc' = AfterConnectors
    /\ UNCHANGED <<cfgVars, steps, splits, total, current, idx, offset, base,
                   face, parts, events, brushes, error, result>>

\* let resultBrush = createBrush(geo), up to the first addFeatures call
ConnBegin ==
    /\ pc = "connectors"
    /\ brushes' = brushes + 1
    /\ FaceNext(events, geo, 0)
    /\ UNCHANGED <<cfgVars, steps, splits, total, base, faults, error>>

\* mutant: the evaluator is called without cylinders
FaceNoneEvaluated ==
    /\ pc = "face"
    /\ FaceGuard(FaceOrder[face])
    /\ FaceNext(events \o <<FaceEvent(FaceOrder[face], 0),
                            FaceEval(FaceOrder[face], "ok")>>, geo, face)
    /\ UNCHANGED <<cfgVars, steps, splits, total, base, brushes, faults, error>>

\* no candidate passes isValidPlacement: geometries.length = 0
FaceNone ==
    /\ pc = "face"
    /\ FaceGuard(FaceOrder[face])
    /\ FaceNext(Append(events, FaceEvent(FaceOrder[face], 0)), geo, face)
    /\ UNCHANGED <<cfgVars, steps, splits, total, base, brushes, faults, error>>

\* createBrush(merged) returns null
FaceBrushFailed ==
    /\ pc = "face"
    /\ FaceGuard(FaceOrder[face])
    /\ CanFault(1)
    /\ faults' = faults + 1
    /\ FaceNext(Append(events, FaceEvent(FaceOrder[face], 1)), geo, face)
    /\ UNCHANGED <<cfgVars, steps, splits, total, base, brushes, error>>

\* evaluator.evaluate(resultBrush, opBrush, op) throws: nothing in
\* applyConnectors catches it, the catch of performGridSlice does
FaceThrows ==
    /\ pc = "face"
    /\ FaceGuard(FaceOrder[face])
    /\ CanFault(1)
    /\ faults' = faults + 1
    /\ brushes' = brushes + 1
    /\ LoopNext(events \o <<FaceEvent(FaceOrder[face], 1),
                            FaceEval(FaceOrder[face], "throw")>>, parts)
    /\ UNCHANGED <<cfgVars, steps, splits, total, base, error>>

\* createBrush(res.geometry) || resultBrush keeps resultBrush
FaceKept ==
    /\ pc = "face"
    /\ FaceGuard(FaceOrder[face])
    /\ CanFault(1)
    /\ faults' = faults + 1
    /\ brushes' = brushes + 1
    /\ FaceNext(events \o <<FaceEvent(FaceOrder[face], 1),
                            FaceEval(FaceOrder[face], "null")>>, geo, face)
    /\ UNCHANGED <<cfgVars, steps, splits, total, base, error>>

FaceApplied ==
    /\ pc = "face"
    /\ FaceGuard(FaceOrder[face])
    /\ brushes' = brushes + 2
    /\ FaceNext(events \o <<FaceEvent(FaceOrder[face], 1),
                            FaceEval(FaceOrder[face], "ok")>>,
                WithFeatures(geo, FaceOrder[face]), face)
    /\ UNCHANGED <<cfgVars, steps, splits, total, base, faults, error>>

\* ---------------------------------------------------------- applyLabel
LabelEval(res) == Eval("label", Cell(idx), "-", "-", res, Zero, Zero)

LabelDone(g) ==
    /\ geo' = [g EXCEPT !.stages = Append(@, "label")]
    /\ pc' = "push"
    /\ UNCHANGED <<cfgVars, steps, splits, total, current, idx, offset, base,
                   face, parts, error, result>>

\* if (!baseBrush || !labelBrush) return geo
LabelBrushFailed ==
    /\ pc = "label"
    /\ CanFault(1)
    /\ faults' = faults + 1
    /\ LabelDone(geo)
    /\ UNCHANGED <<events, brushes>>

\* mutant: the exception of the label union leaves applyLabel
LabelThrowsUncaught ==
    /\ pc = "label"
    /\ CanFault(1)
    /\ faults' = faults + 1
    /\ brushes' = brushes + 2
    /\ LoopNext(Append(events, LabelEval("throw")), parts)
    /\ UNCHANGED <<cfgVars, steps, splits, total, base, error>>

\* catch { return geo }
LabelThrows ==
    /\ pc = "label"
    /\ CanFault(1)
    /\ faults' = faults + 1
    /\ brushes' = brushes + 2
    /\ events' = Append(events, LabelEval("throw"))
    /\ LabelDone(geo)

LabelApplied ==
    /\ pc = "label"
    /\ brushes' = brushes + 2
    /\ events' = Append(events, LabelEval("ok"))
    /\ LabelDone([geo EXCEPT !.label = TRUE])
    /\ UNCHANGED faults

\* ------------------------------------------- the numbers of the features
\* A number with a fractional part is a pair <<numerator, denominator>> with a
\* positive denominator.
RatLeq(p, q) == p[1] * q[2] <= q[1] * p[2]

RatEq(p, q) == p[1] * q[2] = q[1] * p[2]

\* Math.max(p, q)
RatMax(p, q) == IF RatLeq(q, p) THEN p ELSE q

RatAdd(p, q) == <<p[1] * q[2] + q[1] * p[2], p[2] * q[2]>>

\* mutant: no lower limit on the factor
HollowScaleUnclamped(sz, wall) == <<sz - 2 * wall, sz>>

\* scaleX = Math.max(0.01, (size.x - wall * 2) / size.x), for size.x > 0
HollowScale(sz, wall) == RatMax(<<1, 100>>, <<sz - 2 * wall, sz>>)

\* mutant: the tolerance narrows the socket
ConnectorRadiusTight(isPeg, diameter, tolerance) ==
    IF isPeg THEN <<diameter, 2>> ELSE RatAdd(<<diameter, 2>>, <<-tolerance, 1>>)

\* r = isPeg ? connectors.diameter / 2 : (connectors.diameter / 2) + connectors.tolerance
ConnectorRadius(isPeg, diameter, tolerance) ==
    IF isPeg THEN <<diameter, 2>> ELSE RatAdd(<<diameter, 2>>, <<tolerance, 1>>)

\* mutant: the configured spacing is used as it is
FeatureSpacingRaw(spacing) == spacing

\* spacing = Math.max(5, connectors.spacing)
FeatureSpacing(spacing) == Max(MinSpacing, spacing)

\* faceW of a face across faceAxis
FaceW(b, faceAxis) == IF faceAxis = "x" THEN b.z ELSE b.x

\* faceH of a face across faceAxis
FaceH(b, faceAxis) == IF faceAxis = "y" THEN b.z ELSE b.y

\* countH, countV = Math.max(0, Math.floor((faceW - margin * 2) / spacing))
FaceCount(extent, margin, spacing) == Max(0, (extent - margin * 2) \div spacing)

\* The offsets (hOff, vOff) of the candidate centers from the center of the
\* face, doubled: the iterations of the loops over dh and dv.
Candidates(countH, countV, spacing) ==
    {<<2 * dh * spacing - countH * spacing, 2 * dv * spacing - countV * spacing>> :
        dh \in 0 .. countH, dv \in 0 .. countV}

\* applyHollowing, lines 99-111: the scale of the inner shell
ScaleInner ==
    /\ calc = NoCalc
    /\ hollow.enabled
    /\ calc' = [fn |-> "scale",
                scale |-> [a \in Axes |-> HollowScale(size[a], hollow.wallThickness)]]
    /\ UNCHANGED <<config, connectors, hollow, labels, size, geometry, pc, steps,
                   splits, total, current, idx, offset, base, geo, face, parts,
                   events, brushes, faults, error, result, appVars>>

\* the bounding boxes of the parts addFeatures is applied to
PartBoxes == [Axes -> {0, 150, 700, 2000}]

\* addFeatures(faceAxis, isPeg) up to the probe of the candidates
PlanFeatures ==
    /\ calc = NoCalc
    /\ connectors.enabled
    /\ \E faceAxis \in Axes, isPeg \in BOOLEAN, b \in PartBoxes :
        LET spacing == FeatureSpacing(connectors.spacing)
            countH == FaceCount(FaceW(b, faceAxis), connectors.edgeMargin, spacing)
            countV == FaceCount(FaceH(b, faceAxis), connectors.edgeMargin, spacing)
        IN calc' = [fn |-> "features", faceAxis |-> faceAxis, isPeg |-> isPeg,
                    box |-> b,
                    r |-> ConnectorRadius(isPeg, connectors.diameter, connectors.tolerance),
                    candidates |-> Candidates(countH, countV, spacing)]
    /\ UNCHANGED <<config, connectors, hollow, labels, size, geometry, pc, steps,
                   splits, total, current, idx, offset, base, geo, face, parts,
                   events, brushes, faults, error, result, appVars>>

\* box.getSize() of a bounding box with corners min and max
BoxSize(bx) == [a \in Axes |-> bx.max[a] - bx.min[a]]

\* the axis hOff is added to on a face across faceAxis; vOff goes to the other
HAxis(faceAxis) == IF faceAxis = "x" THEN "z" ELSE "x"

\* worldPos of the candidate at the offsets o, doubled: on the face of the
\* part's own bounding box, around the center of that box
WorldPos(bx, faceAxis, isPeg, o) ==
    [a \in Axes |->
        IF a = faceAxis THEN 2 * (IF isPeg THEN bx.max[a] ELSE bx.min[a])
        ELSE bx.min[a] + bx.max[a] + (IF a = HAxis(faceAxis) THEN o[1] ELSE o[2])]

\* the candidate centers addFeatures(faceAxis, isPeg) probes on a part with
\* bounding box bx
WorldCenters(bx, faceAxis, isPeg) ==
    LET spacing == FeatureSpacing(connectors.spacing)
        countH == FaceCount(FaceW(BoxSize(bx), faceAxis), connectors.edgeMargin, spacing)
        countV == FaceCount(FaceH(BoxSize(bx), faceAxis), connectors.edgeMargin, spacing)
    IN {WorldPos(bx, faceAxis, isPeg, o) : o \in Candidates(countH, countV, spacing)}

\* the spans of an extracted part across the cut: as wide as its cell (100),
\* or narrower
Spans == {<<0, 2000>>, <<0, 1500>>}

\* The bounding boxes of two parts extracted from cells adjacent along
\* faceAxis, the cut at 100: each lies in its cell and reaches the cut.
PartPairs(faceAxis) ==
    {[low |-> [min |-> [a \in Axes |-> IF a = faceAxis THEN 0 ELSE sl[a][1]],
               max |-> [a \in Axes |-> IF a = faceAxis THEN 2000 ELSE sl[a][2]]],
      high |-> [min |-> [a \in Axes |-> IF a = faceAxis THEN 2000 ELSE sh[a][1]],
                max |-> [a \in Axes |-> IF a = faceAxis THEN 4000 ELSE sh[a][2]]]] :
        sl \in {f \in [Axes -> Spans] : f[faceAxis] = <<0, 2000>>},
        sh \in {f \in [Axes -> Spans] : f[faceAxis] = <<0, 2000>>}}

\* addFeatures(faceAxis, true) of the part below a cut and
\* addFeatures(faceAxis, false) of the part above it, up to the probes
PlanShared ==
    /\ calc = NoCalc
    /\ connectors.enabled
    /\ \E faceAxis \in Axes : \E pair \in PartPairs(faceAxis) :
        calc' = [fn |-> "shared", faceAxis |-> faceAxis,
                 low |-> pair.low, high |-> pair.high,
                 pegs |-> WorldCenters(pair.low, faceAxis, TRUE),
                 sockets |-> WorldCenters(pair.high, faceAxis, FALSE)]
    /\ UNCHANGED <<config, connectors, hollow, labels, size, geometry, pc, steps,
                   splits, total, current, idx, offset, base, geo, face, parts,
                   events, brushes, faults, error, result, appVars>>

\* ---------------------------------------------------- specifications
Next ==
    \/ GridLimitExceeded \/ GridBaseFailed \/ GridStart
    \/ ManualBaseFailed \/ ManualStart
    \/ ApplyHollowing
    \/ CellSkip \/ CellBrushFailed \/ ExtractThrows \/ ExtractEmpty \/ ExtractOk
    \/ ConnBrushFailed \/ ConnBegin
    \/ FaceNone \/ FaceBrushFailed \/ FaceThrows \/ FaceKept \/ FaceApplied
    \/ LabelBrushFailed \/ LabelThrows \/ LabelApplied
    \/ Push

Spec == Init /\ [][Next]_vars

\* The pipeline under the scheduling of the browser: every requestAnimationFrame
\* callback is run, and the block it resumes runs to its next `await wait()`
\* or to the end of the run.
SpecFair == Spec /\ WF_vars(Next)

\* The partitioner alone, on wider inputs: the block of performGridSlice or
\* performManualSlice up to its first `await wait()`.
InitPartition ==
    /\ connectors = [enabled |-> TRUE]
    /\ labels = [enabled |-> TRUE]
    /\ hollow \in [enabled : BOOLEAN, drainHoleEnabled : {TRUE}]
    /\ \/ /\ config \in GridConfigs(1 .. PartMaxEnv)
          /\ size \in [Axes -> 0 .. PartMaxSize]
       \/ /\ config \in ManualConfigs(0 .. PartMaxSize)
          /\ size \in {Cube(s) : s \in 0 .. PartMaxSize}
    /\ geometry = Soup
    /\ calc = NoCalc
    /\ RunInit

NextPartition ==
    \/ GridLimitExceeded \/ GridBaseFailed \/ GridStart
    \/ ManualBaseFailed \/ ManualStart

SpecPartition == InitPartition /\ [][NextPartition]_vars

\* The numbers of the feature stages alone: the scale of the hollowing shell,
\* the radius of the connector cylinders, the candidate centers of a face.
\* Scenario C has wall 2.5 = 50 on an extent of 100 = 2000, scenario D spacing
\* 50 = 1000 and margin 15 = 300 on a face of width 100 = 2000.
Walls == (0 .. MaxWall) \cup {50, 990, 995, 1000}

Extents == (1 .. MaxExtent) \cup {2000}

\* the connector settings of App: diameter 6, tolerance 0.3, spacing 50, margin 15
DefaultConnectors ==
    [enabled |-> TRUE, diameter |-> 120, tolerance |-> 6, spacing |-> 1000,
     edgeMargin |-> 300]

InitFeature ==
    /\ config \in GridConfigs({MaxSize})
    /\ labels = [enabled |-> TRUE]
    /\ geometry = Soup
    /\ calc = NoCalc
    /\ \/ /\ hollow \in [enabled : {TRUE}, drainHoleEnabled : {TRUE}, wallThickness : Walls]
          /\ size \in {Cube(s) : s \in Extents}
          /\ connectors = DefaultConnectors
       \/ /\ hollow = [enabled |-> FALSE, drainHoleEnabled |-> TRUE, wallThickness |-> 50]
          /\ size = Cube(2000)
          /\ \/ connectors \in [enabled : {TRUE}, diameter : {-2, 0, 1, 2, 120},
                                 tolerance : {-1, 0, 1, 2, 6}, spacing : {1000},
                                 edgeMargin : {300}]
             \/ connectors \in [enabled : {TRUE}, diameter : {120}, tolerance : {6},
                                 spacing : {1, 2, 50, 99, 100, 101, 250, 1000},
                                 edgeMargin : {0, 20, 300}]
    /\ RunInit

NextFeature == ScaleInner \/ PlanFeatures \/ PlanShared

SpecFeature == InitFeature /\ [][NextFeature]_vars

\* ------------------------------------------------------------- Sidebar
\* parseFloat of the text of an input: NaN, or a number
NaN == [nan |-> TRUE, v |-> 0]

Num(n) == [nan |-> FALSE, v |-> n]

\* mutant: the input is taken without the lower limit
PrinterInputUnclamped(p) == IF p.nan \/ p.v = 0 THEN DefaultPrinter ELSE p.v

\* Math.max(1, parseFloat(e.target.value) || 1)
PrinterInput(p) == Max(MinPrinter, IF p.nan \/ p.v = 0 THEN DefaultPrinter ELSE p.v)

\* what parseFloat yields for the texts typed into an envelope input: empty,
\* -1, 0, 0.5, 1, 150
Typed == {NaN, Num(-20), Num(0), Num(10), Num(20), Num(3000)}

\* the positions the split slider is moved to
Slid == {10}

\* the state of App after its first render: the demonstration model
InitSidebar ==
    /\ config = [mode |-> "grid", printerX |-> 2400, printerY |-> 2400,
                 printerZ |-> 2400, manualX |-> 1200, manualY |-> 1200,
                 manualZ |-> 1200, showX |-> FALSE, showY |-> FALSE,
                 showZ |-> FALSE]
    /\ connectors = [enabled |-> TRUE]
    /\ hollow = [enabled |-> FALSE, drainHoleEnabled |-> TRUE]
    /\ labels = [enabled |-> TRUE]
    /\ size = Cube(4000)
    /\ geometry = Soup
    /\ calc = NoCalc
    /\ pc = "idle"
    /\ steps = Zero
    /\ splits = [a \in Axes |-> <<>>]
    /\ total = 0
    /\ current = 0
    /\ idx = Zero
    /\ offset = Zero
    /\ base = [built |-> FALSE, shell |-> FALSE, drain |-> FALSE]
    /\ geo = NoGeo
    /\ face = 0
    /\ parts = <<>>
    /\ events = <<>>
    /\ brushes = 0
    /\ faults = 0
    /\ error = "none"
    /\ result = NoResult
    /\ AppInit

\* what an edit of the configuration leaves alone
runVars == <<size, geometry, calc, appVars, pc, steps, splits, total, current, idx, offset,
             base, geo, face, parts, events, brushes, faults, error, result>>

\* the Grid and Manual buttons
SetMode ==
    /\ pc = "idle"
    /\ \E m \in {"grid", "manual"} : config' = [config EXCEPT !.mode = m]
    /\ UNCHANGED <<connectors, hollow, labels, runVars>>

\* the Volume X, Y, Z inputs, shown in grid mode
SetPrinter ==
    /\ pc = "idle" /\ config.mode = "grid"
    /\ \E a \in Axes, p \in Typed :
        config' = CASE a = "x" -> [config EXCEPT !.printerX = PrinterInput(p)]
                    [] a = "y" -> [config EXCEPT !.printerY = PrinterInput(p)]
                    [] OTHER -> [config EXCEPT !.printerZ = PrinterInput(p)]
    /\ UNCHANGED <<connectors, hollow, labels, runVars>>

\* the axis check boxes, shown in manual mode
SetShow ==
    /\ pc = "idle" /\ config.mode = "manual"
    /\ \E a \in Axes, b \in BOOLEAN :
        config' = CASE a = "x" -> [config EXCEPT !.showX = b]
                    [] a = "y" -> [config EXCEPT !.showY = b]
                    [] OTHER -> [config EXCEPT !.showZ = b]
    /\ UNCHANGED <<connectors, hollow, labels, runVars>>

\* the split sliders, disabled while their axis is not shown
SetManual ==
    /\ pc = "idle" /\ config.mode = "manual"
    /\ \E a \in Axes, v \in Slid :
        /\ ShowOf(config, a)
        /\ config' = CASE a = "x" -> [config EXCEPT !.manualX = v]
                       [] a = "y" -> [config EXCEPT !.manualY = v]
                       [] OTHER -> [config EXCEPT !.manualZ = v]
    /\ UNCHANGED <<connectors, hollow, labels, runVars>>

\* the check boxes of the hollowing and connector sections
SetFeature ==
    /\ pc = "idle"
    /\ \/ /\ hollow' = [hollow EXCEPT !.enabled = ~@]
          /\ UNCHANGED connectors
       \/ /\ connectors' = [connectors EXCEPT !.enabled = ~@]
          /\ UNCHANGED hollow
    /\ UNCHANGED <<config, labels, runVars>>

\* handleSlicing up to the call of performGridSlice or performManualSlice
HandleSlicing ==
    /\ pc = "idle"
    /\ pc' = "init"
    /\ UNCHANGED <<cfgVars, steps, splits, total, current, idx, offset, base, geo,
                   face, parts, events, brushes, faults, error, result>>

\* catch (err): alert, isProcessing: false
SliceFailed ==
    /\ pc = "fatal"
    /\ pc' = "idle"
    /\ steps' = Zero
    /\ splits' = [a \in Axes |-> <<>>]
    /\ total' = 0
    /\ faults' = 0
    /\ error' = "none"
    /\ UNCHANGED <<cfgVars, current, idx, offset, base, geo, face, parts, events,
                   brushes, result>>

NextSidebar ==
    \/ SetMode \/ SetPrinter \/ SetShow \/ SetManual \/ SetFeature
    \/ HandleSlicing \/ SliceFailed
    \/ GridLimitExceeded \/ GridBaseFailed \/ GridStart
    \/ ManualBaseFailed \/ ManualStart

\* The configuration edits of the Sidebar and the start of a run.
SpecSidebar == InitSidebar /\ [][NextSidebar]_vars

\* ---------------------------------------------------------- normalizer runs
\* the position arrays of no, of one and of two triangles
Positions == {<<>>} \cup [1 .. 3 -> 0 .. MaxCoord] \cup [1 .. 6 -> 0 .. MaxCoord]

\* the index buffers over three vertices: one triangle, or a triangle drawn
\* from both sides
Indices == [1 .. 3 -> 0 .. 2] \cup {<<0, 1, 2, 2, 1, 0>>}

\* the meshes handed to the normalizer: non-indexed and indexed ones
Meshes ==
    {EmptyGeometry}
    \cup {[position |-> TRUE, points |-> p, index |-> <<>>, layout |-> "none",
           welds |-> w] : p \in Positions, w \in BOOLEAN}
    \cup {[position |-> TRUE, points |-> p, index |-> i, layout |-> l,
           welds |-> w] :
            p \in [1 .. 3 -> 0 .. MaxCoord], i \in Indices,
            l \in {"u16", "u32"}, w \in BOOLEAN}

InitNormalize ==
    /\ config \in GridConfigs({MaxSize})
    /\ connectors = [enabled |-> FALSE]
    /\ labels = [enabled |-> FALSE]
    /\ hollow = [enabled |-> FALSE, drainHoleEnabled |-> TRUE]
    /\ size = Cube(MaxSize)
    /\ geometry \in Meshes
    /\ calc = NoCalc
    /\ RunInit

\* ensureValidForCSG applied to the mesh, and again to what it returned
Normalize ==
    /\ calc.fn \in {"none", "normalize"}
    /\ calc.fn = "normalize" => calc.passes < MaxPasses
    /\ geometry' = ensureValidForCSG(geometry)
    /\ calc' = [fn |-> "normalize", input |-> geometry,
                passes |-> IF calc.fn = "none" THEN 1 ELSE calc.passes + 1]
    /\ UNCHANGED <<config, connectors, hollow, labels, size, pc, steps, splits,
                   total, current, idx, offset, base, geo, face, parts, events,
                   brushes, faults, error, result, appVars>>

NextNormalize == Normalize

\* The normalizer alone, applied repeatedly to small meshes.
SpecNormalize == InitNormalize /\ [][NextNormalize]_vars

\* ------------------------------------------------------------------ App
\* A run is abstracted to its blocks between two `await wait()` and to the
\* evaluator calls of a block.  The event loop executes one task at a time:
\* a click handler or a callback starts only while no block is executing, and
\* the continuation of an await on a settled promise runs in the same task.
pipeVars == <<config, connectors, hollow, labels, size, geometry, calc, pc, steps,
              splits, total, current, idx, offset, base, geo, face, parts, events,
              brushes, faults, error, result>>

\* the part lists a run returns: empty, or parts cut from its geometry
Returned(r) == {<<>>, <<[run |-> r, model |-> runs[r].model]>>}

\* handleSlicing up to the first await of the run, which has one `await
\* wait()` per cell and one before the hollowing: the Generate Slices button
\* is shown while a model is loaded, whether or not a run is in progress
OnSlice(r) ==
    /\ task = 0
    /\ state.isLoaded
    /\ runs[r].st = "none"
    /\ \A q \in RunIds : q < r => runs[q].st # "none"
    /\ \E n \in 1 .. MaxBlocks :
        runs' = [runs EXCEPT ![r] = [st |-> "running", model |-> model, left |-> n,
                                     first |-> TRUE, calls |-> 0,
                                     before |-> state.parts, value |-> <<>>]]
    /\ state' = [state EXCEPT !.isProcessing = TRUE]
    /\ task' = r
    /\ UNCHANGED <<pipeVars, model, io>>

\* throw new Error: the part limit, or no base brush, before the first await
RunThrows(r) ==
    /\ task = r
    /\ runs[r].st = "running" /\ runs[r].first
    /\ runs' = [runs EXCEPT ![r].st = "rejected"]
    /\ UNCHANGED <<pipeVars, state, model, task, io>>

\* mutant: the catch clears the part list
CatchErrorClears(r) ==
    /\ task = r
    /\ runs[r].st = "rejected"
    /\ runs' = [runs EXCEPT ![r].st = "failed"]
    /\ state' = [state EXCEPT !.parts = <<>>, !.isProcessing = FALSE]
    /\ task' = 0
    /\ UNCHANGED <<pipeVars, model, io>>

\* catch (err): alert, isProcessing: false
CatchError(r) ==
    /\ task = r
    /\ runs[r].st = "rejected"
    /\ runs' = [runs EXCEPT ![r].st = "failed"]
    /\ state' = [state EXCEPT !.isProcessing = FALSE]
    /\ task' = 0
    /\ UNCHANGED <<pipeVars, model, io>>

\* await wait(): the block ends, the run is suspended
Wait(r) ==
    /\ task = r
    /\ runs[r].st = "running" /\ runs[r].left > 0
    /\ runs' = [runs EXCEPT ![r].st = "waiting", ![r].left = @ - 1]
    /\ task' = 0
    /\ UNCHANGED <<pipeVars, state, model, io>>

\* mutant: the callback runs while another block is executing
FramePreempts(r) ==
    /\ runs[r].st = "waiting"
    /\ runs' = [runs EXCEPT ![r].st = "running", ![r].first = FALSE, ![r].calls = 0]
    /\ task' = r
    /\ UNCHANGED <<pipeVars, state, model, io>>

\* the requestAnimationFrame callback resolves the promise of wait()
Frame(r) ==
    /\ task = 0
    /\ runs[r].st = "waiting"
    /\ runs' = [runs EXCEPT ![r].st = "running", ![r].first = FALSE, ![r].calls = 0]
    /\ task' = r
    /\ UNCHANGED <<pipeVars, state, model, io>>

\* evaluator.evaluate(...) is entered: the calls of a run come after its
\* first `await wait()`
Evaluate(r) ==
    /\ task = r
    /\ runs[r].st = "running" /\ ~runs[r].first
    /\ runs[r].calls < MaxCalls
    /\ runs' = [runs EXCEPT ![r].st = "evaluating", ![r].calls = @ + 1]
    /\ UNCHANGED <<pipeVars, state, model, task, io>>

\* evaluator.evaluate(...) returns or throws into the catch around it
Evaluated(r) ==
    /\ task = r
    /\ runs[r].st = "evaluating"
    /\ runs' = [runs EXCEPT ![r].st = "running"]
    /\ UNCHANGED <<pipeVars, state, model, task, io>>

\* return parts
RunReturns(r) ==
    /\ task = r
    /\ runs[r].st = "running" /\ runs[r].left = 0
    /\ \E v \in Returned(r) :
        runs' = [runs EXCEPT ![r].st = "resolved", ![r].value = v]
    /\ UNCHANGED <<pipeVars, state, model, task, io>>

\* parts: resultParts, isProcessing: false
StoreParts(r) ==
    /\ task = r
    /\ runs[r].st = "resolved"
    /\ runs' = [runs EXCEPT ![r].st = "stored"]
    /\ state' = [state EXCEPT !.parts = runs[r].value, !.isProcessing = FALSE]
    /\ task' = 0
    /\ UNCHANGED <<pipeVars, model, io>>

\* onReset: the Sidebar shows the file input again
OnReset ==
    /\ task = 0
    /\ state.isLoaded
    /\ state' = [state EXCEPT !.parts = <<>>, !.isLoaded = FALSE]
    /\ UNCHANGED <<pipeVars, model, runs, task, io>>

\* handleFileUpload up to reader.readAsArrayBuffer(file)
OnFileUpload ==
    /\ task = 0
    /\ ~state.isLoaded /\ ~io.reader
    /\ state' = [state EXCEPT !.isProcessing = TRUE]
    /\ io' = [io EXCEPT !.reader = TRUE]
    /\ UNCHANGED <<pipeVars, model, runs, task>>

\* reader.onload: the new mesh and its bounds, parts: []
ReaderLoaded ==
    /\ task = 0
    /\ io.reader /\ model < MaxModels
    /\ model' = model + 1
    /\ state' = [isLoaded |-> TRUE, parts |-> <<>>, isProcessing |-> FALSE]
    /\ io' = [io EXCEPT !.reader = FALSE]
    /\ UNCHANGED <<pipeVars, runs, task>>

\* reader.onload: the parser throws
ReaderFailed ==
    /\ task = 0
    /\ io.reader
    /\ state' = [state EXCEPT !.isProcessing = FALSE]
    /\ io' = [io EXCEPT !.reader = FALSE]
    /\ UNCHANGED <<pipeVars, model, runs, task>>

\* onScale: the geometry is scaled in place, parts: []
OnScale ==
    /\ task = 0
    /\ state.isLoaded /\ model < MaxModels
    /\ model' = model + 1
    /\ state' = [state EXCEPT !.parts = <<>>]
    /\ UNCHANGED <<pipeVars, runs, task, io>>

\* exportZip up to `await zip.generateAsync`: the button is shown while there
\* are parts
ExportZip ==
    /\ task = 0
    /\ state.isLoaded /\ state.parts # <<>> /\ ~io.zip
    /\ state' = [state EXCEPT !.isProcessing = TRUE]
    /\ io' = [io EXCEPT !.zip = TRUE]
    /\ UNCHANGED <<pipeVars, model, runs, task>>

\* exportZip after the await: finally isProcessing: false
ExportDone ==
    /\ task = 0
    /\ io.zip
    /\ state' = [state EXCEPT !.isProcessing = FALSE]
    /\ io' = [io EXCEPT !.zip = FALSE]
    /\ UNCHANGED <<pipeVars, model, runs, task>>

InitApp ==
    /\ config \in GridConfigs({MaxSize})
    /\ connectors = [enabled |-> FALSE]
    /\ labels = [enabled |-> FALSE]
    /\ hollow = [enabled |-> FALSE, drainHoleEnabled |-> TRUE]
    /\ size = Cube(MaxSize)
    /\ geometry = Soup
    /\ calc = NoCalc
    /\ RunInit

NextApp ==
    \/ \E r \in RunIds : OnSlice(r)
    \/ \E r \in RunIds : RunThrows(r)
    \/ \E r \in RunIds : CatchError(r)
    \/ \E r \in RunIds : Wait(r)
    \/ \E r \in RunIds : Frame(r)
    \/ \E r \in RunIds : Evaluate(r)
    \/ \E r \in RunIds : Evaluated(r)
    \/ \E r \in RunIds : RunReturns(r)
    \/ \E r \in RunIds : StoreParts(r)
    \/ OnReset \/ OnFileUpload \/ ReaderLoaded \/ ReaderFailed
    \/ OnScale \/ ExportZip \/ ExportDone

\* App: the clicks of the user, the slicing runs they start, the callbacks.
SpecApp == InitApp /\ [][NextApp]_vars

\* ============================================================== claims
EventSet == {events[i] : i \in 1 .. Len(events)}

Evals(what) == {e \in EventSet : e.t = "eval" /\ e.what = what}

PartIndices == {parts[i].index : i \in 1 .. Len(parts)}

AxisNo(a) == CASE a = "x" -> 1 [] a = "y" -> 2 [] OTHER -> 3

\* the run has left the iteration of cell c
Left(c) == pc = "done" \/ (pc \in {"cell", "connectors", "face", "label", "push"} /\ Cell(idx) # c)

RECURSIVE ExtentSum(_, _)
\* the sum of the extents of the first n grid cells of axis a
ExtentSum(a, n) ==
    IF n = 0 THEN 0
    ELSE ExtentSum(a, n - 1)
         + GridExtent(size[a], PrinterOf(config, a), steps[a], n - 1)

\* C1: in grid mode the cell extents of every axis (the envelope size for all
\* cells but the last, the remainder for the last, with ceil(size/envelope)
\* cells) sum exactly to the extent of the bounding box.
C1_GridCellsTile ==
    (config.mode = "grid" /\ pc # "init") =>
        \A a \in Axes :
            LET env == PrinterOf(config, a) IN
            /\ steps[a] >= 1
            /\ size[a] > 0 => (steps[a] - 1) * env < size[a] /\ size[a] <= steps[a] * env
            /\ \A i \in 0 .. steps[a] - 2 : GridExtent(size[a], env, steps[a], i) = env
            /\ GridExtent(size[a], env, steps[a], steps[a] - 1) = size[a] - (steps[a] - 1) * env
            /\ ExtentSum(a, steps[a]) = size[a]

\* the analogue of scenario A: two cells, the last one takes the remainder
C1_Witness ==
    /\ config.mode = "grid" /\ pc = "cell"
    /\ size.x = 5 /\ config.printerX = 3
    /\ steps.x = 2
    /\ GridExtent(size.x, config.printerX, steps.x, 1) = 2

\* C2: every grid cell handed to the evaluator has on each axis an extent
\* greater than 0 and at most the envelope size of that axis.
C2_CellWithinEnvelope ==
    config.mode = "grid" =>
        \A e \in Evals("cell") : \A a \in Axes :
            0 < e.box[a] /\ e.box[a] <= PrinterOf(config, a)

\* a remainder cell, smaller than the envelope, is handed to the evaluator
C2_Witness ==
    /\ config.mode = "grid"
    /\ \E e \in Evals("cell") : e.box.x < config.printerX /\ e.cell[1] = 1

\* C3: when stepsX*stepsY*stepsZ > 500 the run ends with the fatal limit error
\* before any brush is built, any evaluator call is made or any progress
\* notification is emitted, and returns no parts; a product of at most 500
\* passes the check.
C3_LimitAbortsFirst ==
    (config.mode = "grid" /\ pc # "init") =>
        /\ total = steps.x * steps.y * steps.z
        /\ (total > 500) <=> (error = "limit")
        /\ error = "limit" =>
            /\ pc = "fatal"
            /\ brushes = 0 /\ ~base.built
            /\ events = <<>>
            /\ parts = <<>> /\ ~result.returned

C3_Witness ==
    /\ error = "limit" /\ total = 504 /\ brushes = 0 /\ events = <<>>

\* C4: in manual mode a disabled axis has the one split [size], an enabled axis
\* the two splits [offset, size - offset], which sum to size.
C4_ManualSplits ==
    (config.mode = "manual" /\ pc # "init") =>
        \A a \in Axes :
            /\ ~ShowOf(config, a) => splits[a] = <<size[a]>>
            /\ ShowOf(config, a) =>
                /\ Len(splits[a]) = 2
                /\ splits[a][1] = ManualOf(config, a)
                /\ splits[a][2] = size[a] - ManualOf(config, a)
                /\ splits[a][1] + splits[a][2] = size[a]

\* the analogue of scenario B
C4_Witness ==
    /\ config.mode = "manual" /\ pc # "init"
    /\ config.showX /\ ~config.showY
    /\ size.x = 10 /\ config.manualX = 3
    /\ splits.x = <<3, 7>> /\ splits.y = <<10>>

\* the cells whose parts.push ran, in order
RECURSIVE Pushed(_)
Pushed(ev) ==
    IF ev = <<>> THEN <<>>
    ELSE IF Head(ev).t = "push" THEN <<Head(ev).cell>> \o Pushed(Tail(ev))
    ELSE Pushed(Tail(ev))

\* the counters of the per-cell progress notifications, in order
RECURSIVE Announced(_)
Announced(ev) ==
    IF ev = <<>> THEN <<>>
    ELSE IF Head(ev).t = "progress" /\ Head(ev).what = "cell"
         THEN <<Head(ev).n>> \o Announced(Tail(ev))
    ELSE Announced(Tail(ev))

\* C5: an evaluator failure while extracting a cell does not abort the run:
\* the cell yields no part, the parts pushed so far stay in the list, every
\* cell of the partition is still visited and the list is returned.
C5_ExtractFailureIsolated ==
    /\ \A e \in Evals("cell") : e.res = "throw" =>
        /\ e.cell \notin PartIndices
        /\ pc # "fatal" /\ error = "none"
    /\ Pushed(events) = [i \in 1 .. Len(parts) |-> parts[i].index]
    /\ pc = "done" =>
        /\ Announced(events) = [i \in 1 .. steps.x * steps.y * steps.z |-> i]
        /\ result = [returned |-> TRUE, parts |-> parts]

\* the extraction of the first cell fails, the second cell still yields a part
C5_Witness ==
    /\ pc = "done" /\ result.returned
    /\ \E e \in Evals("cell") : e.res = "throw" /\ e.cell = <<0, 0, 0>>
    /\ \E i \in 1 .. Len(result.parts) : result.parts[i].index # <<0, 0, 0>>

\* C6: when the evaluator fails during the peg union or socket subtraction of
\* one face, the part is still emitted.
C6_FaceFailureKeepsPart ==
    \A e \in Evals("peg") \cup Evals("socket") :
        (e.res = "throw" /\ Left(e.cell)) => e.cell \in PartIndices

\* the cells on which applyConnectors ran through its six guarded calls
ConnDone == {e.cell : e \in {f \in EventSet : f.t = "connEnd"}}

FaceCalls == {e \in EventSet : e.t = "face"}

HasCall(c, a, side, what) ==
    \E e \in FaceCalls : e.cell = c /\ e.axis = a /\ e.side = side /\ e.what = what

\* d is the neighbour of c in the positive direction of axis a
Above(c, d, a) ==
    /\ d[AxisNo(a)] = c[AxisNo(a)] + 1
    /\ \A b \in Axes \ {a} : d[AxisNo(b)] = c[AxisNo(b)]

\* C7: of two cells adjacent along an axis, exactly one is assigned pegs on the
\* shared face and the other sockets, and no face is assigned both.
C7_OnePegOneSocket ==
    config.mode = "grid" =>
        /\ \A c \in ConnDone, d \in ConnDone, a \in Axes :
            Above(c, d, a) =>
                /\ HasCall(c, a, "max", "peg") # HasCall(d, a, "min", "peg")
                /\ HasCall(c, a, "max", "socket") # HasCall(d, a, "min", "socket")
                /\ HasCall(c, a, "max", "peg") # HasCall(c, a, "max", "socket")
                /\ HasCall(d, a, "min", "peg") # HasCall(d, a, "min", "socket")
        /\ \A e \in FaceCalls, f \in FaceCalls :
            (e.cell = f.cell /\ e.axis = f.axis /\ e.side = f.side) => e.what = f.what

C7_Witness ==
    /\ config.mode = "grid"
    /\ \E c \in ConnDone, d \in ConnDone :
        /\ Above(c, d, "x")
        /\ HasCall(d, "x", "min", "socket") /\ HasCall(d, "x", "max", "peg")

\* C8 as claimed: pegs are unioned into the higher-index neighbour (on the face
\* towards the lower index), clearances are subtracted from the lower-index one.
C8_PegsOnHigher ==
    /\ \A e \in Evals("peg") : e.side = "min" /\ e.cell[AxisNo(e.axis)] >= 1
    /\ \A e \in Evals("socket") :
        e.side = "max" /\ e.cell[AxisNo(e.axis)] + 1 < steps[e.axis]

\* C8, amended: pegs are unioned into the lower-index neighbour (on its face
\* towards the higher index), clearances are subtracted from the higher-index
\* neighbour (on its face towards the lower index).
C8_PegsOnLower ==
    /\ \A e \in Evals("peg") :
        e.side = "max" /\ e.cell[AxisNo(e.axis)] + 1 < steps[e.axis]
    /\ \A e \in Evals("socket") : e.side = "min" /\ e.cell[AxisNo(e.axis)] >= 1

C8_Witness ==
    \E e \in Evals("peg"), f \in Evals("socket") :
        /\ e.res = "ok" /\ f.res = "ok"
        /\ e.axis = "y" /\ f.axis = "y"
        /\ Above(e.cell, f.cell, "y")

\* the stages an emitted part has to have gone through, in order
ExpectedStages ==
    <<"extract">>
    \o (IF connectors.enabled THEN <<"connectors">> ELSE <<>>)
    \o (IF labels.enabled THEN <<"label">> ELSE <<>>)

\* C9: in grid and manual mode every emitted part went through extract, then
\* connectors when enabled, then label when enabled.
C9_StagesInOrder ==
    \A i \in 1 .. Len(parts) : parts[i].geometry.stages = ExpectedStages

\* C10: when the shell subtraction succeeded and the drain-hole subtraction
\* fails, applyHollowing returns the hollowed solid without the drain hole.
C10_DrainFailureKeepsShell ==
    (/\ pc \notin {"init", "hollow", "fatal"}
     /\ \E e \in Evals("shell") : e.res = "ok"
     /\ \E e \in Evals("drain") : e.res = "throw")
    => (base.shell /\ ~base.drain)

\* the positions in events of the evaluator calls made for `what`
EvalAt(what) ==
    {i \in 1 .. Len(events) : events[i].t = "eval" /\ events[i].what = what}

\* C11: with hollowing enabled the shell subtraction comes before the
\* drain-hole subtraction, the drain-hole subtraction is made only when drain
\* holes are enabled, and both come before the first extraction; with
\* hollowing disabled no subtraction is made and the base solid is the
\* normalized input.
C11_HollowOrder ==
    /\ \A i \in EvalAt("shell"), j \in EvalAt("drain") : i < j
    /\ \A i \in EvalAt("shell") \cup EvalAt("drain"), j \in EvalAt("cell") : i < j
    /\ Cardinality(EvalAt("shell")) <= 1 /\ Cardinality(EvalAt("drain")) <= 1
    /\ EvalAt("drain") # {} =>
        hollow.enabled /\ hollow.drainHoleEnabled /\ EvalAt("shell") # {}
    /\ (hollow.enabled /\ faults = 0 /\ pc \notin {"init", "hollow", "fatal"}) =>
        /\ EvalAt("shell") # {} /\ base.shell
        /\ hollow.drainHoleEnabled => (EvalAt("drain") # {} /\ base.drain)
    /\ ~hollow.enabled =>
        /\ EvalAt("shell") \cup EvalAt("drain") = {}
        /\ ~base.shell /\ ~base.drain
        /\ base.built => BrushInput(geometry)

\* a hollowed and drained base solid, and a cell extracted from it
C11_Witness ==
    /\ hollow.enabled /\ hollow.drainHoleEnabled
    /\ base.shell /\ base.drain
    /\ \E i \in EvalAt("shell"), j \in EvalAt("drain"), k \in EvalAt("cell") :
        i < j /\ j < k /\ events[k].res = "ok"

\* C12: the scale factor of the inner shell is max(0.01, (size - 2*wall)/size)
\* on every axis, for size > 0 and wall >= 0; for wall >= size/2 it is exactly
\* 0.01, and it is never zero or negative.
C12_HollowScaleClamped ==
    calc.fn = "scale" =>
        \A a \in Axes :
            LET f == calc.scale[a]
                w == hollow.wallThickness
            IN (size[a] > 0 /\ w >= 0) =>
                /\ f[2] > 0 /\ f[1] > 0
                /\ RatLeq(<<1, 100>>, f)
                /\ 100 * (size[a] - 2 * w) >= size[a] => f[1] * size[a] = (size[a] - 2 * w) * f[2]
                /\ 100 * (size[a] - 2 * w) < size[a] => RatEq(f, <<1, 100>>)
                /\ 2 * w >= size[a] => RatEq(f, <<1, 100>>)

\* scenario C (factor 0.95)
C12_Witness ==
    /\ calc.fn = "scale"
    /\ size.x = 2000 /\ hollow.wallThickness = 50
    /\ RatEq(calc.scale.x, <<95, 100>>)

\* countH and countV as the specification gives them, for the spacing sp
SpecCount(extent, margin, sp) == Max(0, (extent - 2 * margin) \div sp)

\* C13 as claimed: the number of candidate centers of a face is
\* (countH+1)*(countV+1), the counts being taken with the configured spacing.
C13_CandidatesConfiguredSpacing ==
    (calc.fn = "features" /\ connectors.spacing > 0) =>
        Cardinality(calc.candidates) =
            (SpecCount(FaceW(calc.box, calc.faceAxis), connectors.edgeMargin,
                       connectors.spacing) + 1)
            * (SpecCount(FaceH(calc.box, calc.faceAxis), connectors.edgeMargin,
                         connectors.spacing) + 1)

\* C13, amended: the counts are taken with the larger of the configured
\* spacing and 5 (100 units).
C13_CandidatesClampedSpacing ==
    (calc.fn = "features" /\ connectors.spacing > 0) =>
        LET sp == IF connectors.spacing >= 100 THEN connectors.spacing ELSE 100 IN
        Cardinality(calc.candidates) =
            (SpecCount(FaceW(calc.box, calc.faceAxis), connectors.edgeMargin, sp) + 1)
            * (SpecCount(FaceH(calc.box, calc.faceAxis), connectors.edgeMargin, sp) + 1)

\* a configured spacing of 2.5: the centers are 5 apart, 7 columns of 2
C13_Witness ==
    /\ calc.fn = "features"
    /\ connectors.spacing = 50 /\ connectors.edgeMargin = 20
    /\ calc.faceAxis = "z" /\ calc.box.x = 700 /\ calc.box.y = 150
    /\ Cardinality(calc.candidates) = 14

\* C14: the radius of the socket cylinders is at least the radius of the peg
\* cylinders (half the diameter), for every diameter and tolerance > 0.
C14_SocketRadiusAtLeastPeg ==
    (calc.fn = "features" /\ connectors.tolerance > 0) =>
        /\ calc.r[2] > 0
        /\ calc.isPeg => RatEq(calc.r, <<connectors.diameter, 2>>)
        /\ ~calc.isPeg =>
            /\ RatLeq(<<connectors.diameter, 2>>, calc.r)
            /\ RatEq(calc.r, <<connectors.diameter + 2 * connectors.tolerance, 2>>)

\* a socket of the default settings: radius 3.3 against 3
C14_Witness ==
    /\ calc.fn = "features" /\ ~calc.isPeg
    /\ connectors.diameter = 120 /\ connectors.tolerance = 6
    /\ RatEq(calc.r, <<66, 1>>)

\* the loop indices of the cell with index tuple c
IndexOf(c) == [a \in Axes |-> c[AxisNo(a)]]

\* the value of `current` in the iteration of the cell at the loop indices i
CounterOf(i) == (i.x * steps.y + i.y) * steps.z + i.z + 1

RECURSIVE SplitSum(_, _)
\* the sum of the first n splits of axis a
SplitSum(a, n) == IF n = 0 THEN 0 ELSE SplitSum(a, n - 1) + splits[a][n]

\* the offset from bounds.min at which the cell at the loop indices i lies
ExpectedPos(i) ==
    IF config.mode = "grid" THEN [a \in Axes |-> i[a] * PrinterOf(config, a)]
    ELSE [a \in Axes |-> SplitSum(a, i[a])]

InLoop == pc \in {"cell", "connectors", "face", "label", "push"}

\* C15: a cell with a dimension below 0.1 yields no part and no evaluator
\* call; its progress notification is emitted and the counter advances by one
\* for it as for every cell; every cell is extracted at the index and offset
\* it has in the partition, whatever was skipped before it.
C15_SkippedCellKeepsPlace ==
    /\ \A e \in EventSet : (e.t = "eval" /\ e.cell # NoCell) =>
            \A a \in Axes : CellBox(IndexOf(e.cell))[a] >= MinDim
    /\ \A c \in PartIndices : \A a \in Axes : CellBox(IndexOf(c))[a] >= MinDim
    /\ InLoop =>
        /\ current = CounterOf(idx)
        /\ Announced(events) = [n \in 1 .. current |-> n]
        /\ offset = (IF config.mode = "grid" THEN Zero ELSE ExpectedPos(idx))
    /\ pc = "done" =>
        Announced(events) = [n \in 1 .. steps.x * steps.y * steps.z |-> n]
    /\ \A e \in Evals("cell") :
        /\ e.pos = ExpectedPos(IndexOf(e.cell))
        /\ e.box = CellBox(IndexOf(e.cell))

\* manual mode, a cut at 0.05 along z: the first cell is skipped, the second
\* is announced as number 2 and extracted at offset 0.05
C15_Witness ==
    /\ config.mode = "manual" /\ config.showZ /\ config.manualZ = 1
    /\ pc = "done"
    /\ Announced(events) = <<1, 2>>
    /\ \A e \in EventSet : e.t = "eval" => e.cell # <<0, 0, 0>>
    /\ <<0, 0, 0>> \notin PartIndices
    /\ \E e \in Evals("cell") : e.cell = <<0, 0, 1>> /\ e.pos.z = 1 /\ e.res = "ok"

\* C16: when the intersection of the base solid with a cell's box has no
\* vertices, the cell yields no part, no connector or label stage runs for it,
\* no error is raised, and the run goes on with the next cell (or returns).
C16_EmptyCellNoPart ==
    \A i \in EvalAt("cell") :
        events[i].res = "empty" =>
            LET c == events[i].cell IN
            /\ c \notin PartIndices
            /\ \A e \in EventSet :
                e.cell = c => (e.t = "eval" /\ e.what = "cell" /\ e.res = "empty")
            /\ error = "none" /\ pc # "fatal"
            /\ IF i = Len(events)
               THEN pc = "done" /\ result = [returned |-> TRUE, parts |-> parts]
               ELSE events[i + 1] = Progress("cell", CounterOf(IndexOf(c)) + 1)

\* the first cell is empty, the second yields a part
C16_Witness ==
    /\ pc = "done"
    /\ \E i \in EvalAt("cell") : events[i].res = "empty" /\ events[i].cell = <<0, 0, 0>>
    /\ Len(result.parts) = 1

\* the positions in events of the progress notifications `what`, counter n
ProgressAt(what, n) ==
    {j \in 1 .. Len(events) : events[j] = Progress(what, n)}

\* C17: the hollowing notification precedes every evaluator call of the
\* hollowing stage; the notification of a cell precedes the intersection of
\* that cell; in grid mode the per-cell notifications carry 1, 2, ..., total in
\* increasing order.
C17_ProgressBeforeWork ==
    /\ \A i \in EvalAt("shell") \cup EvalAt("drain") :
        \E j \in ProgressAt("hollow", 0) : j < i
    /\ \A i \in EvalAt("cell") :
        \E j \in ProgressAt("cell", CounterOf(IndexOf(events[i].cell))) :
            /\ j < i
            /\ \A k \in j + 1 .. i - 1 : events[k].t # "progress"
    /\ config.mode = "grid" =>
        /\ Len(Announced(events)) <= total
        /\ Announced(events) = [n \in 1 .. Len(Announced(events)) |-> n]
        /\ pc = "done" => Len(Announced(events)) = total

\* a hollowed grid run of two cells
C17_Witness ==
    /\ config.mode = "grid" /\ pc = "done" /\ total = 2
    /\ EvalAt("shell") # {} /\ EvalAt("drain") # {}
    /\ Cardinality(EvalAt("cell")) = 2
    /\ Announced(events) = <<1, 2>>

\* the run was aborted before anything was built, announced or extracted
AbortedAtStart ==
    /\ pc = "fatal"
    /\ events = <<>> /\ current = 0
    /\ brushes = 0 /\ ~base.built
    /\ parts = <<>> /\ ~result.returned

\* C18: for a source mesh without vertices ensureValidForCSG returns the empty
\* mesh and createBrush returns null; then, and whenever the base brush
\* cannot be built, performGridSlice and performManualSlice abort with a
\* fatal error before any cell is processed and return no parts.
C18_EmptySourceFatal ==
    /\ (~geometry.position \/ Count(geometry) = 0) =>
        /\ ensureValidForCSG(geometry) = EmptyGeometry
        /\ ~BrushInput(geometry)
        /\ pc # "init" => (AbortedAtStart /\ error \in {"init", "limit"})
    /\ error = "init" => AbortedAtStart

\* a source with an empty position attribute, refused without any external
\* failure
C18_Witness ==
    /\ geometry = ZeroCount
    /\ pc = "fatal" /\ error = "init" /\ faults = 0

\* C19: when the label union fails (a brush is not built or the evaluator
\* throws) applyLabel returns the geometry it was given, and performGridSlice
\* pushes the part with that geometry, connectors included.
C19_LabelFailureKeepsGeometry ==
    [][/\ (pc = "label" /\ faults' > faults) =>
            /\ pc' = "push"
            /\ geo'.cell = geo.cell /\ geo'.label = geo.label
            /\ geo'.pegs = geo.pegs /\ geo'.sockets = geo.sockets
            /\ parts' = parts /\ error' = "none"
       /\ pc = "push" =>
            /\ Len(parts') = Len(parts) + 1
            /\ parts'[Len(parts')].geometry = geo
            /\ parts'[Len(parts')].index = Cell(idx)
            /\ \A i \in 1 .. Len(parts) : parts'[i] = parts[i]]_vars

\* a part with pegs whose label union threw: emitted with the pegs, unlabelled
C19_Witness ==
    \E i \in 1 .. Len(parts) :
        /\ parts[i].geometry.pegs # {} /\ ~parts[i].geometry.label
        /\ \E e \in Evals("label") : e.res = "throw" /\ e.cell = parts[i].index

\* C20: after any sequence of configuration edits made through the Sidebar,
\* starting from the initial configuration, every envelope dimension handed
\* to performGridSlice is greater than 0.
C20_EnvelopePositive ==
    /\ \A a \in Axes : PrinterOf(config, a) > 0
    /\ (pc # "idle" /\ config.mode = "grid") =>
        \A a \in Axes : PrinterOf(config, a) >= MinPrinter /\ (pc # "init" => steps[a] >= 1)

\* a run started after an envelope input was cleared or set below 1
C20_Witness ==
    /\ config.mode = "grid" /\ pc \in {"cell", "fatal"}
    /\ config.printerX = MinPrinter /\ config.printerY = 3000
    /\ steps.x = 200 /\ steps.y = 2

\* C21: normalizing a mesh that is already the output of the normalizer keeps
\* the number of vertices and the number of triangles, and moves no vertex by
\* more than the welding tolerance.
C21_NormalizeIdempotent ==
    (calc.fn = "normalize" /\ calc.passes >= 2) =>
        /\ Count(geometry) = Count(calc.input)
        /\ Triangles(geometry) = Triangles(calc.input)
        /\ \A i \in 1 .. Count(geometry) :
            /\ geometry.points[i] - calc.input.points[i] <= WeldTolerance
            /\ calc.input.points[i] - geometry.points[i] <= WeldTolerance

\* the second pass ran on a mesh of two triangles whose vertices were welded
C21_Witness ==
    /\ calc.fn = "normalize" /\ calc.passes = 2
    /\ Triangles(calc.input) = 2
    /\ Count(calc.input) < Len(calc.input.index)
    /\ Count(geometry) = Count(calc.input)

\* the runs that hold an evaluator call in flight
InFlight == {r \in RunIds : runs[r].st = "evaluating"}

\* the runs handleSlicing started that have not finished
Unfinished == {r \in RunIds : runs[r].st \notin {"none", "failed", "stored"}}

\* C22: at most one call of the shared evaluator is in flight at any time,
\* and the run that makes it is the one whose block is executing: no run is
\* suspended, and no other run executes, between the start and the end of a
\* call, also while two runs overlap.
C22_EvaluatorCallsSerial ==
    \A r \in InFlight : task = r /\ InFlight = {r}

\* an evaluator call of the second run is in flight while the first run is
\* suspended at a yield point
C22_Witness ==
    /\ runs[2].st = "evaluating"
    /\ runs[1].st = "waiting"

\* C26: when a run started by handleSlicing ends with a fatal error, the
\* part list of the application is the one it held when the run was started
\* and isProcessing is false.
C26_FatalKeepsParts ==
    [][\A r \in RunIds :
        (runs[r].st = "rejected" /\ runs'[r].st = "failed") =>
            /\ state'.parts = runs[r].before
            /\ ~state'.isProcessing]_vars

\* a run has failed and the parts shown before it are still stored
C26_Witness ==
    /\ runs[1].st = "failed"
    /\ state.parts = runs[1].before /\ state.parts = DemoParts
    /\ ~state.isProcessing

\* C27: isProcessing is true whenever a run started by handleSlicing has not
\* finished.
C27_ProcessingWhileRunning ==
    Unfinished # {} => state.isProcessing

\* C28: the parts stored by the application were cut from the geometry that is
\* loaded now: after a load or a rescale no run started before it stores parts.
C28_PartsOfCurrentModel ==
    \A i \in 1 .. Len(state.parts) : state.parts[i].model = model

\* the positions in events of the evaluator calls of addFeatures for the face
\* of the call e
FaceEvalsOf(e) ==
    {j \in 1 .. Len(events) :
        /\ events[j].t = "eval" /\ events[j].what \in {"peg", "socket"}
        /\ events[j].cell = e.cell /\ events[j].axis = e.axis
        /\ events[j].side = e.side}

\* C25: for each face applyConnectors processes the evaluator is invoked at
\* most once, and not at all when no candidate of the face passed the
\* placement validation; every evaluator call of applyConnectors follows the
\* call of addFeatures for its face.
C25_OneEvalPerFace ==
    /\ \A e \in FaceCalls :
        /\ Cardinality(FaceEvalsOf(e)) <= 1
        /\ e.n = 0 => FaceEvalsOf(e) = {}
    /\ \A j \in 1 .. Len(events) :
        (events[j].t = "eval" /\ events[j].what \in {"peg", "socket"}) =>
            /\ j > 1
            /\ events[j - 1].t = "face" /\ events[j - 1].n > 0
            /\ j \in FaceEvalsOf(events[j - 1])

\* a run returned after one face without accepted candidate, for which the
\* evaluator was not called, and one face with candidates and one call
C25_Witness ==
    /\ pc = "done"
    /\ \E e \in FaceCalls : e.n = 0 /\ FaceEvalsOf(e) = {}
    /\ \E e \in FaceCalls : e.n > 0 /\ Cardinality(FaceEvalsOf(e)) = 1

\* the run is past the part limit and has its base solid
Started == pc \notin {"init", "fatal"}

\* C23: a run that passed the cell-count check and built its base solid ends
\* by returning a part list, whichever evaluator calls fail; it visits the
\* cells in the order ix outer, iy middle, iz inner, each once, and yields
\* once per cell: the counter of the cell in progress is its place in that
\* order, and at the end one notification per cell was emitted.
C23_RunTerminates ==
    /\ [](InLoop => current = CounterOf(idx))
    /\ [](pc = "done" =>
            /\ result.returned
            /\ current = TotalOf(steps)
            /\ Len(Announced(events)) = TotalOf(steps))
    /\ (Started ~> (pc = "done" /\ result.returned))

\* a run over two rows of two cells returned after an evaluator call failed
C23_Witness ==
    /\ pc = "done" /\ result.returned
    /\ TotalOf(steps) = 4 /\ current = 4
    /\ faults > 0
    /\ \E e \in EventSet : e.t = "eval" /\ e.res = "throw"

\* index tuple c comes before d in the order of the loops
LexLess(c, d) ==
    \/ c[1] < d[1]
    \/ c[1] = d[1] /\ c[2] < d[2]
    \/ c[1] = d[1] /\ c[2] = d[2] /\ c[3] < d[3]

\* C24: the part list, while it is built and when it is returned, holds every
\* cell index at most once, in strictly increasing lexicographic order, every
\* index inside the partition; the names of the parts differ pairwise.
C24_PartsSorted ==
    /\ \A i \in 1 .. Len(parts) : \A j \in 1 .. Len(parts) :
        i < j =>
            /\ LexLess(parts[i].index, parts[j].index)
            /\ parts[i].name # parts[j].name
    /\ \A i \in 1 .. Len(parts) : \A a \in Axes :
        /\ parts[i].index[AxisNo(a)] >= 0
        /\ parts[i].index[AxisNo(a)] < steps[a]
    /\ result.returned => result.parts = parts

\* a run over two rows of two cells returned three parts or more
C24_Witness ==
    /\ result.returned
    /\ Len(result.parts) >= 3
    /\ Cardinality({a \in Axes : steps[a] = 2}) = 2

\* the index tuple next to c along axis a, by d
Beside(c, a, d) == [n \in 1 .. 3 |-> IF n = AxisNo(a) THEN c[n] + d ELSE c[n]]

\* C30 as claimed: a returned part carries pegs on a positive face, or sockets
\* on a negative face, only if the cell across that face produced a part in
\* the same run.
C30_FeaturesTowardParts ==
    result.returned =>
        \A i \in 1 .. Len(result.parts) :
            LET p == result.parts[i] IN
            /\ \A a \in p.geometry.pegs : Beside(p.index, a, 1) \in PartIndices
            /\ \A a \in p.geometry.sockets : Beside(p.index, a, -1) \in PartIndices

\* C30, amended: a part carries pegs on a positive face, or sockets on a
\* negative face, only if the partition has a cell across that face, whether
\* or not that cell produces a part.
C30_FeaturesTowardCells ==
    \A i \in 1 .. Len(parts) :
        LET p == parts[i] IN
        /\ \A a \in p.geometry.pegs : p.index[AxisNo(a)] + 1 < steps[a]
        /\ \A a \in p.geometry.sockets : p.index[AxisNo(a)] >= 1

\* a returned part carries pegs towards a cell of the partition that produced
\* no part
C30_Witness ==
    /\ result.returned
    /\ \E i \in 1 .. Len(result.parts) :
        LET p == result.parts[i] IN
        \E a \in p.geometry.pegs :
            /\ p.index[AxisNo(a)] + 1 < steps[a]
            /\ Beside(p.index, a, 1) \notin PartIndices

\* C29: of two parts adjacent along an axis, the candidate peg centers the
\* lower part computes on the shared face are the candidate socket centers the
\* higher part computes on it, whatever the bounding boxes of the two parts.
C29_SharedCentersEqual ==
    calc.fn = "shared" => calc.pegs = calc.sockets

====
